---- MODULE Spec2Model ----
(***************************************************************************)
(* Model of the chord/lyric compiler of src/4_convert_to_latex.py:         *)
(* merge (the chord-lyric merger), format_chord, format_solo_line,         *)
(* get_group_padding_length, getGroupName and the group assembler          *)
(* format_annotated_lines.                                                 *)
(*                                                                         *)
(* A Python str is modelled as a sequence of one-character strings.        *)
(***************************************************************************)
EXTENDS Integers, Sequences, FiniteSets, TLC

(***************************************************************************)
(* Bounds of the model                                                     *)
(***************************************************************************)
MaxBaseLen == 4
MaxDetailsLen == 5
MaxLines == 3
MaxLineLen == 4
MaxIndent == 1
MaxWordRun == 9
MaxGap == 6
MaxNotes == 2
MaxTrail == 2
MaxSongs == 3

LyricChars == {"a", "b", " "}
ChordChars == {"C", "m", " "}
LineChars == {"1", "r", "R", "x", "*", ":", ".", " "}

(***************************************************************************)
(* Python string primitives                                                *)
(***************************************************************************)
Min(a, b) == IF a < b THEN a ELSE b
Max(a, b) == IF a > b THEN a ELSE b

\* the whitespace class of str.strip() and of the regex \s
IsSpace(c) == c = " "

\* s[a:b] with Python's clamping of out-of-range bounds (0 <= a, 0 <= b)
Slice(s, a, b) == SubSeq(s, Min(a, Len(s)) + 1, Min(b, Len(s)))

\* s[a:]
SliceFrom(s, a) == SubSeq(s, Min(a, Len(s)) + 1, Len(s))

RECURSIVE lstrip(_)
lstrip(s) ==
  IF s = <<>> THEN <<>>
  ELSE IF IsSpace(Head(s)) THEN lstrip(Tail(s)) ELSE s

RECURSIVE rstrip(_)
rstrip(s) ==
  IF s = <<>> THEN <<>>
  ELSE IF IsSpace(s[Len(s)]) THEN rstrip(SubSeq(s, 1, Len(s) - 1)) ELSE s

strip(s) == lstrip(rstrip(s))

\* len(re.sub("[^\\s]", "", s)): the number of whitespace characters of s
RECURSIVE SpaceCount(_)
SpaceCount(s) ==
  IF s = <<>> THEN 0
  ELSE (IF IsSpace(Head(s)) THEN 1 ELSE 0) + SpaceCount(Tail(s))

FirstWord_OneChar(s) == IF s = <<>> THEN <<>> ELSE <<Head(s)>>

\* re.split("\\s", s, maxsplit=1)[0]: the text before the first whitespace
RECURSIVE FirstWord(_)
FirstWord(s) ==
  IF s = <<>> THEN <<>>
  ELSE IF IsSpace(Head(s)) THEN <<>>
  ELSE <<Head(s)>> \o FirstWord(Tail(s))

\* re.sub("\\s", "~", s, count=n) for n >= 1
RECURSIVE SubSpaces(_, _)
SubSpaces(s, n) ==
  IF s = <<>> \/ n = 0 THEN s
  ELSE IF IsSpace(Head(s)) THEN <<"~">> \o SubSpaces(Tail(s), n - 1)
  ELSE <<Head(s)>> \o SubSpaces(Tail(s), n)

\* n * " "
RECURSIVE Spaces(_)
Spaces(n) == IF n <= 0 THEN <<>> ELSE <<" ">> \o Spaces(n - 1)

RECURSIVE Sum(_)
Sum(s) == IF s = <<>> THEN 0 ELSE Head(s) + Sum(Tail(s))

\* x in s, for a character x
Contains(s, x) == \E i \in 1..Len(s) : s[i] = x

UpperLetters ==
  <<"A", "B", "C", "D", "E", "F", "G", "H", "I", "J", "K", "L", "M",
    "N", "O", "P", "Q", "R", "S", "T", "U", "V", "W", "X", "Y", "Z">>
LowerLetters ==
  <<"a", "b", "c", "d", "e", "f", "g", "h", "i", "j", "k", "l", "m",
    "n", "o", "p", "q", "r", "s", "t", "u", "v", "w", "x", "y", "z">>

\* s.lower(), on the letters A-Z
LowerChar(c) ==
  IF \E i \in 1..26 : UpperLetters[i] = c
  THEN LowerLetters[CHOOSE i \in 1..26 : UpperLetters[i] = c]
  ELSE c
Lower(s) == [i \in 1..Len(s) |-> LowerChar(s[i])]

(***************************************************************************)
(* format_chord                                                            *)
(***************************************************************************)
format_chord_swapped(chord, is_optional, is_special) ==
  <<"\\">> \o (IF is_optional THEN <<"m">> ELSE <<"o">>)
    \o <<"c", "h", "o", "r", "d">>
    \o (IF is_special THEN <<"*">> ELSE <<>>)
    \o <<"{">> \o chord \o <<"}">>

format_chord(chord, is_optional, is_special) ==
  <<"\\">> \o (IF is_optional THEN <<"o">> ELSE <<"m">>)
    \o <<"c", "h", "o", "r", "d">>
    \o (IF is_special THEN <<"*">> ELSE <<>>)
    \o <<"{">> \o chord \o <<"}">>

(***************************************************************************)
(* merge                                                                   *)
(***************************************************************************)
\* lines 206-211: the base is right-padded to the length of the chord line
PadBase_NoPad(base, details) == base

PadBase(base, details) ==
  IF Len(base) <= Len(details)
  THEN base \o Spaces(Len(details) - Len(base))
  ELSE base

\* lines 218-228: the "get shifts" loop
RECURSIVE GetShifts(_, _, _, _)
GetShifts(details, prev_detail_length, segment_length_list, detail_list) ==
  IF details = <<>>
  THEN [segment_length_list |-> segment_length_list, detail_list |-> detail_list]
  ELSE LET left_padding_length == Len(details) - Len(lstrip(details))
           details1 == SliceFrom(details, left_padding_length)
           detail == FirstWord(details1)
           detail_length == Len(detail)
           details2 == SliceFrom(details1, detail_length)
       IN  GetShifts(details2, detail_length,
                     Append(segment_length_list, prev_detail_length + left_padding_length),
                     Append(detail_list, detail))

\* lines 241-243: the expected visual reach of a chord ("dim" in detail.lower()
\* implies "m" in detail.lower(), so the second disjunct adds nothing)
DetailLength(detail) ==
  Max(Len(detail) + 1, 3)
    + (IF Contains(Lower(detail), "m") THEN 2 ELSE 0)

\* line 244
SegmentFarSpaceCount(segment, detail_length) ==
  IF detail_length >= Len(segment) THEN 0
  ELSE SpaceCount(SliceFrom(segment, detail_length))

\* line 246: the collision test
IsStarredAlways(is_last, segment) ==
  SpaceCount(segment) = 0 /\ Len(segment) # 0

IsStarred(is_last, segment) ==
  ~is_last /\ SpaceCount(segment) = 0 /\ Len(segment) # 0

\* lines 249-252: the forced space of a starred chord
StarSegment_AtEnd(segment, detail_length) == segment \o <<" ">>

StarSegment_Overwrites(segment, detail_length) ==
  IF Len(segment) >= detail_length
  THEN Slice(segment, 0, detail_length - 1) \o <<" ">> \o SliceFrom(segment, detail_length)
  ELSE segment \o <<" ">>

StarSegment(segment, detail_length) ==
  IF Len(segment) >= detail_length
  THEN Slice(segment, 0, detail_length) \o <<" ">> \o SliceFrom(segment, detail_length)
  ELSE segment \o <<" ">>

\* lines 254-257: the join markers of a chord that is not starred
JoinSegment_Always(segment, detail_length) ==
  SubSpaces(segment, SpaceCount(Slice(segment, 0, detail_length)))

JoinSegment(segment, detail_length) ==
  LET segment_space_count == SpaceCount(segment)
      segment_far_space_count == SegmentFarSpaceCount(segment, detail_length)
      replaced_count == segment_space_count - segment_far_space_count
  IN  IF segment_far_space_count > 0 /\ replaced_count # 0
      THEN SubSpaces(segment, replaced_count)
      ELSE segment

\* lines 237-263: the loop over zip(segment_length_list, detail_list)
RECURSIVE MergeLoop(_, _, _, _, _, _, _)
MergeLoop(index, base, segment_length_list, detail_list, are_chords_optional, total_segment_length, merged) ==
  IF index > Min(Len(segment_length_list), Len(detail_list))
  THEN merged
  ELSE LET segment_length == segment_length_list[index]
           detail == detail_list[index]
           is_last == (index = Len(detail_list))
           segment == Slice(base, total_segment_length,
                            total_segment_length + segment_length)
           detail_length == DetailLength(detail)
           is_starred == IsStarred(is_last, segment)
           segment1 == IF is_starred
                       THEN StarSegment(segment, detail_length)
                       ELSE JoinSegment(segment, detail_length)
       IN  MergeLoop(index + 1, base, segment_length_list, detail_list,
                     are_chords_optional,
                     total_segment_length + segment_length,
                     merged \o format_chord(detail, are_chords_optional, is_starred)
                            \o segment1)

\* lines 204-264: merge for a chord line that is not blank
MergeBody(base0, details0, are_chords_optional) ==
  LET details == rstrip(details0)
      base == PadBase(base0, details)
      shifts == GetShifts(details, 0, <<>>, <<>>)
      last_segment_length == Len(base) - Sum(shifts.segment_length_list)
      sll1 == IF last_segment_length # 0
              THEN Append(shifts.segment_length_list, last_segment_length)
              ELSE shifts.segment_length_list
      total_segment_length == Head(sll1)
      sll2 == Append(Tail(sll1), 0)
  IN  MergeLoop(1, base, sll2, shifts.detail_list, are_chords_optional,
                total_segment_length, Slice(base, 0, total_segment_length))

merge_rstrips(base, details, are_chords_optional) ==
  IF Len(strip(details)) = 0 THEN rstrip(base)
  ELSE MergeBody(base, details, are_chords_optional)

merge(base, details, are_chords_optional) ==
  IF Len(strip(details)) = 0 THEN base
  ELSE MergeBody(base, details, are_chords_optional)

(***************************************************************************)
(* format_solo_line, get_group_padding_length, getGroupName                *)
(***************************************************************************)
\* re.split("\\s", s): a split at every single whitespace character
RECURSIVE SplitSpaces(_, _)
SplitSpaces(s, word) ==
  IF s = <<>> THEN <<word>>
  ELSE IF IsSpace(Head(s)) THEN <<word>> \o SplitSpaces(Tail(s), <<>>)
  ELSE SplitSpaces(Tail(s), Append(word, Head(s)))

inlinechord(chord) ==
  <<"\\", "i", "n", "l", "i", "n", "e", "c", "h", "o", "r", "d", "{">> \o chord \o <<"}">>

\* " ".join(words)
RECURSIVE JoinSpace(_)
JoinSpace(words) ==
  IF words = <<>> THEN <<>>
  ELSE IF Len(words) = 1 THEN Head(words)
  ELSE Head(words) \o <<" ">> \o JoinSpace(Tail(words))

format_solo_line(s) ==
  LET chords == SplitSpaces(s, <<>>)
  IN  JoinSpace([i \in 1..Len(chords) |-> inlinechord(chords[i])])

\* the characters of the regex [\.:]
IsSeparator(c) == c = "." \/ c = ":"

\* re.split("[\\.:]", s, maxsplit=1)[0]
RECURSIVE BeforeSeparator(_)
BeforeSeparator(s) ==
  IF s = <<>> THEN <<>>
  ELSE IF IsSeparator(Head(s)) THEN <<>>
  ELSE <<Head(s)>> \o BeforeSeparator(Tail(s))

get_group_padding_length_NoSpace(s) ==
  IF ~(\E i \in 1..Len(s) : IsSeparator(s[i])) THEN 0
  ELSE Len(BeforeSeparator(s)) + 1

\* lines 266-270
get_group_padding_length(s) ==
  IF ~(\E i \in 1..Len(s) : IsSeparator(s[i])) THEN 0
  ELSE Len(BeforeSeparator(s)) + 2

None == "None"

LineType == {"EMPTY", "VERSE", "CHORUS", "CHORDS", "BRIDGE", "SOLO",
             "VERSE_WITH_CHORDS", "CHORUS_WITH_CHORDS", "BRIDGE_WITH_CHORDS",
             "SOLO_WITH_CHORDS", "TEXT"}

getGroupName_PlainOnly(group_type) ==
  IF group_type = "VERSE" THEN <<"v", "e", "r", "s", "e">>
  ELSE IF group_type = "CHORUS" THEN <<"r", "e", "f", "r", "e", "n">>
  ELSE IF group_type = "BRIDGE" THEN <<"d", "e", "c", "o">>
  ELSE IF group_type = "SOLO" THEN <<"s", "o", "l", "o">>
  ELSE <<>>

\* lines 114-123
getGroupName(group_type) ==
  IF group_type \in {"VERSE", "VERSE_WITH_CHORDS"} THEN <<"v", "e", "r", "s", "e">>
  ELSE IF group_type \in {"CHORUS", "CHORUS_WITH_CHORDS"} THEN <<"r", "e", "f", "r", "e", "n">>
  ELSE IF group_type \in {"BRIDGE", "BRIDGE_WITH_CHORDS"} THEN <<"d", "e", "c", "o">>
  ELSE IF group_type \in {"SOLO", "SOLO_WITH_CHORDS"} THEN <<"s", "o", "l", "o">>
  ELSE <<>>

\* f"\\begin{{{getGroupName(t)}}}" and f"\\end{{{getGroupName(t)}}}"
BeginMarker(group_type) ==
  <<"\\", "b", "e", "g", "i", "n", "{">> \o getGroupName(group_type) \o <<"}">>

EndMarker(group_type) ==
  <<"\\", "e", "n", "d", "{">> \o getGroupName(group_type) \o <<"}">>

\* lines 152-155
group_start == {"VERSE_WITH_CHORDS", "CHORUS_WITH_CHORDS", "BRIDGE_WITH_CHORDS",
                "SOLO_WITH_CHORDS", "VERSE", "CHORUS", "BRIDGE", "SOLO"}
has_chords == {"VERSE_WITH_CHORDS", "CHORUS_WITH_CHORDS", "BRIDGE_WITH_CHORDS",
               "SOLO_WITH_CHORDS"}
gobbles_chords == group_start \cup {"TEXT"}
should_be_appended == group_start \cup {"TEXT"}

(***************************************************************************)
(* predict_line_types, is_chord_line, get_label                            *)
(***************************************************************************)
\* the characters of the regex [A-H]
BasicChordChars == {"A", "B", "C", "D", "E", "F", "G", "H"}

RECURSIVE BasicChordCount(_)
BasicChordCount(s) ==
  IF s = <<>> THEN 0
  ELSE (IF Head(s) \in BasicChordChars THEN 1 ELSE 0) + BasicChordCount(Tail(s))

\* lines 97-102
is_chord_line(s) ==
  LET l == lstrip(s)
      char_count == Len(l) - SpaceCount(l)
      whitespace_count == Len(l) - char_count
      basic_chord_count == BasicChordCount(l)
  IN  whitespace_count > char_count - 4 /\ char_count - basic_chord_count < 8

\* the value get_label returns for "no label" (Python's None)
NoLabel == <<"None">>

\* lines 104-112
get_label(s) ==
  IF ~(\E i \in 1..Len(s) : IsSeparator(s[i])) THEN NoLabel
  ELSE LET label == strip(BeforeSeparator(s))
       IN  IF SpaceCount(label) = 0 THEN Lower(label) ELSE NoLabel

\* sub in s, for strings
HasSubstring(s, sub) ==
  \E i \in 0..(Len(s) - Len(sub)) : SubSeq(s, i + 1, i + Len(sub)) = sub

Digits == {"0", "1", "2", "3", "4", "5", "6", "7", "8", "9"}

\* str.isnumeric(), on the characters of the model
isnumeric(s) == s # <<>> /\ \A i \in 1..Len(s) : s[i] \in Digits

\* lines 86-93: the line type of a label
LabelType_WithChordsFromCase(label, s) ==
  LET plain == IF isnumeric(label) THEN "VERSE"
               ELSE IF \/ HasSubstring(label, <<"b", "r", "i", "d", "g", "e">>)
                       \/ HasSubstring(label, <<"*">>)
                       \/ HasSubstring(label, <<"i", "n", "t", "r", "o">>)
                       \/ HasSubstring(label, <<"o", "u", "t", "r", "o">>)
               THEN "BRIDGE"
               ELSE IF \/ HasSubstring(label, <<"c", "h", "o", "r", "u", "s">>)
                       \/ HasSubstring(label, <<"r", "e", "f", "r", "e", "n">>)
                       \/ HasSubstring(label, <<"r">>)
               THEN "CHORUS"
               ELSE "SOLO"
      original == strip(BeforeSeparator(s))
  IN  IF original # Lower(original)
      THEN CASE plain = "VERSE" -> "VERSE_WITH_CHORDS"
             [] plain = "CHORUS" -> "CHORUS_WITH_CHORDS"
             [] plain = "BRIDGE" -> "BRIDGE_WITH_CHORDS"
             [] OTHER -> "SOLO_WITH_CHORDS"
      ELSE plain

LabelType(label, s) ==
  IF isnumeric(label) THEN "VERSE"
  ELSE IF \/ HasSubstring(label, <<"b", "r", "i", "d", "g", "e">>)
          \/ HasSubstring(label, <<"*">>)
          \/ HasSubstring(label, <<"i", "n", "t", "r", "o">>)
          \/ HasSubstring(label, <<"o", "u", "t", "r", "o">>)
  THEN "BRIDGE"
  ELSE IF \/ HasSubstring(label, <<"c", "h", "o", "r", "u", "s">>)
          \/ HasSubstring(label, <<"r", "e", "f", "r", "e", "n">>)
          \/ HasSubstring(label, <<"r">>)
  THEN "CHORUS"
  ELSE "SOLO"

\* lines 80-94: the body of the loop of predict_line_types, for one line
predict_line_type(s) ==
  IF strip(s) = <<>> THEN "EMPTY"
  ELSE IF is_chord_line(s) THEN "CHORDS"
  ELSE IF get_label(s) # NoLabel THEN LabelType(get_label(s), s)
  ELSE "TEXT"

(***************************************************************************)
(* format_line_type, parse_line_type, format_line_annotations              *)
(***************************************************************************)
\* lines 280-303
format_line_type(lt) ==
  CASE lt = "EMPTY" -> "e" [] lt = "VERSE" -> "v" [] lt = "CHORUS" -> "r"
    [] lt = "CHORDS" -> "c" [] lt = "BRIDGE" -> "b" [] lt = "SOLO" -> "s"
    [] lt = "VERSE_WITH_CHORDS" -> "V" [] lt = "CHORUS_WITH_CHORDS" -> "R"
    [] lt = "BRIDGE_WITH_CHORDS" -> "B" [] lt = "SOLO_WITH_CHORDS" -> "S"
    [] lt = "TEXT" -> " " [] OTHER -> None

\* lines 305-328: a text no case matches falls through, the function returns None
parse_line_type(text) ==
  CASE text = "e" -> "EMPTY" [] text = "v" -> "VERSE" [] text = "r" -> "CHORUS"
    [] text = "c" -> "CHORDS" [] text = "b" -> "BRIDGE" [] text = "s" -> "SOLO"
    [] text = "V" -> "VERSE_WITH_CHORDS" [] text = "R" -> "CHORUS_WITH_CHORDS"
    [] text = "B" -> "BRIDGE_WITH_CHORDS" [] text = "S" -> "SOLO_WITH_CHORDS"
    [] text = " " -> "TEXT" [] OTHER -> None

\* line 333: f"{format_line_type(line_type)} > {line}"
format_line_annotation(lt, s) == <<format_line_type(lt), " ", ">", " ">> \o s

(***************************************************************************)
(* State                                                                   *)
(***************************************************************************)
VARIABLES
  pc,                  \* process_song: "idle", "loop", "done", "wrapped", "raised"
  song,                \* the song process_song works on
  edited,              \* the curated line being converted (line 346)
  formatted_lines,     \* process_song, lines 352-356
  c_pc,                \* predict_line_types: "idle", "call" or "done"
  c_line, c_type,      \* its input line and the line type it returns
  line_no,               \* number of input lines consumed by the for loop
  line_type, line,     \* the loop variables of line 157
  chord_buffer, output_lines, current_group_type, group_lines,
  group_padding, merge_chords,                          \* lines 126-132
  m_pc,                \* merge: "idle", "call" or "done"
  m_base, m_details, m_optional,                        \* arguments of merge
  m_merged,            \* the value merge returns
  l_pc,                \* process_song_list: "idle", "loop", "written", "raised"
  loaded,              \* what json.load returned (line 395), kept for reference
  songs, processed_song_list, prev_song, song_index,    \* lines 395-408
  curr_song, task,     \* the song popped at line 411 and the choice of line 435
  written              \* what line 468 writes back, None before

asm_vars == <<pc, line_no, line_type, line, chord_buffer, output_lines,
              current_group_type, group_lines, group_padding, merge_chords,
              song, edited, formatted_lines>>
merge_vars == <<m_pc, m_base, m_details, m_optional, m_merged>>
classify_vars == <<c_pc, c_line, c_type>>
list_vars == <<l_pc, loaded, songs, processed_song_list, prev_song, song_index,
               curr_song, task, written>>
vars == <<asm_vars, merge_vars, classify_vars, list_vars>>

(***************************************************************************)
(* Inputs                                                                  *)
(***************************************************************************)
Strs(A, n) == UNION {[1..k -> A] : k \in 0..n}

EmptyLines == {<<>>}
ChordLines ==
  {<<"C", " ", "C", "m">>, <<" ", " ", " ", "C", " ", "C">>,
   <<" ", " ", " ", "C", " ", " ", "C">>}
LabelLines == {<<"1", ".", " ", "a", "b", " ", "c">>, <<"a", "b">>}
TextLines == {<<"a", " ", "b", "c">>, <<" ", " ", " ", "a", "b", " ", "c">>}

\* Scenario C of the specification: a raw line, typed by predict_line_types
ChorusSingNow ==
  <<"C", "h", "o", "r", "u", "s", ":", " ", "S", "i", "n", "g", " ", "n", "o", "w">>
RawLines == {ChorusSingNow}

\* curated lines that do not have the form "<type char> > <text>": an empty
\* line and a line with an unknown type character
MalformedLines == {<<>>, <<"x", " ", ">", " ", "a", "b">>}

Songs ==
  {[title |-> <<"T">>, artist |-> <<"A">>, release_year |-> <<"9">>],
   [title |-> <<>>, artist |-> <<"B", "b">>, release_year |-> <<>>]}

\* Scenario A and Scenario B of the specification
HelloWorldToday ==
  <<"H", "e", "l", "l", "o", " ", "w", "o", "r", "l", "d", " ",
    "t", "o", "d", "a", "y">>
C_G7 == <<"C", " ", " ", " ", " ", " ", " ", " ", "G", "7">>
Scenarios ==
  {[base |-> HelloWorldToday, details |-> C_G7, optional |-> FALSE],
   [base |-> <<"G", "o">>, details |-> <<"A", "m">>, optional |-> FALSE]}

MergeInputs ==
  [base : Strs(LyricChars, MaxBaseLen), details : Strs(ChordChars, MaxDetailsLen),
   optional : BOOLEAN] \cup Scenarios

(***************************************************************************)
(* format_annotated_lines                                                  *)
(***************************************************************************)
AsmIdle ==
  /\ pc = "idle" /\ line_no = 0 /\ line_type = None /\ line = <<>>
  /\ chord_buffer = <<>> /\ output_lines = <<>> /\ current_group_type = None
  /\ group_lines = <<>> /\ group_padding = 0 /\ merge_chords = FALSE
  /\ song = [title |-> <<>>, artist |-> <<>>, release_year |-> <<>>]
  /\ edited = <<>> /\ formatted_lines = <<>>

ClassifyIdle == c_pc = "idle" /\ c_line = <<>> /\ c_type = None

ListIdle ==
  /\ l_pc = "idle" /\ loaded = <<>> /\ songs = <<>> /\ processed_song_list = <<>>
  /\ prev_song = None /\ song_index = 0 /\ curr_song = None /\ task = None
  /\ written = None

MergeIdle ==
  /\ m_pc = "idle" /\ m_base = <<>> /\ m_details = <<>>
  /\ m_optional = FALSE /\ m_merged = <<>>

\* lines 126-132
Init ==
  /\ pc = "loop" /\ line_no = 0 /\ line_type = None /\ line = <<>>
  /\ chord_buffer = <<>> /\ output_lines = <<>> /\ current_group_type = None
  /\ group_lines = <<>> /\ group_padding = 0 /\ merge_chords = FALSE
  /\ song \in Songs /\ edited = <<>> /\ formatted_lines = <<>>
  /\ MergeIdle
  /\ ClassifyIdle
  /\ ListIdle

\* the group state that end_group and the loop body update
Group(out, cgt, gl, gp, mc) ==
  [output_lines |-> out, current_group_type |-> cgt, group_lines |-> gl,
   group_padding |-> gp, merge_chords |-> mc]

end_group_AllTerminated(g) ==
  LET gl == g.group_lines
      all_lines == [i \in 1..Len(gl) |-> gl[i] \o <<" ", "\\", "\\">>]
  IN  Group(Append(g.output_lines \o all_lines, EndMarker(g.current_group_type)),
            None, <<>>, 0, FALSE)

\* lines 134-150
end_group(g) ==
  LET gl == g.group_lines
      base_lines == [i \in 1..(Len(gl) - 1) |-> gl[i] \o <<" ", "\\", "\\">>]
      out1 == IF Len(gl) > 0
              THEN (g.output_lines \o base_lines) \o <<gl[Len(gl)]>>
              ELSE g.output_lines
  IN  Group(Append(out1, EndMarker(g.current_group_type)), None, <<>>, 0, FALSE)

OpenOrClose_NoClose(g, lt, ln) ==
  IF lt = "EMPTY" /\ g.current_group_type # None THEN end_group(g)
  ELSE IF lt \in group_start
  THEN Group(Append(g.output_lines, BeginMarker(lt)), lt, g.group_lines,
             get_group_padding_length(ln), lt \in has_chords)
  ELSE g

\* lines 158-167
OpenOrClose(g, lt, ln) ==
  IF lt = "EMPTY" /\ g.current_group_type # None THEN end_group(g)
  ELSE IF lt \in group_start
  THEN LET c == IF g.current_group_type # None THEN end_group(g) ELSE g
       IN  Group(Append(c.output_lines, BeginMarker(lt)), lt, c.group_lines,
                 get_group_padding_length(ln), lt \in has_chords)
  ELSE g

ImplicitOpen_PlainVerse(g, ln, buffer) ==
  IF g.current_group_type = None
  THEN Group(Append(g.output_lines, BeginMarker("VERSE")), "VERSE", g.group_lines,
             Len(ln) - Len(lstrip(ln)), g.merge_chords)
  ELSE g

\* lines 170-176
ImplicitOpen(g, ln, buffer) ==
  IF g.current_group_type = None
  THEN LET cgt == IF buffer = <<>> THEN "VERSE" ELSE "VERSE_WITH_CHORDS"
       IN  Group(Append(g.output_lines, BeginMarker(cgt)), cgt, g.group_lines,
                 Len(ln) - Len(lstrip(ln)), g.merge_chords)
  ELSE g

ContentLine_WholeBuffer(g, ln, buffer) ==
  IF g.current_group_type = "SOLO"
  THEN format_solo_line(SliceFrom(ln, g.group_padding))
  ELSE Spaces(3) \o merge(SliceFrom(ln, g.group_padding), buffer,
                          g.current_group_type \notin has_chords)

\* lines 177-182
ContentLine(g, ln, buffer) ==
  IF g.current_group_type = "SOLO"
  THEN format_solo_line(SliceFrom(ln, g.group_padding))
  ELSE IF g.current_group_type \in has_chords
  THEN Spaces(3) \o merge(SliceFrom(ln, g.group_padding),
                          SliceFrom(buffer, g.group_padding), FALSE)
  ELSE Spaces(3) \o merge(SliceFrom(ln, g.group_padding),
                          SliceFrom(buffer, g.group_padding), TRUE)

AppendLine_TextOnly(g, lt, ln, buffer) ==
  IF lt = "TEXT"
  THEN LET o == ImplicitOpen(g, ln, buffer)
       IN  [o EXCEPT !.group_lines = Append(o.group_lines, ContentLine(o, ln, buffer))]
  ELSE g

\* lines 169-182
AppendLine(g, lt, ln, buffer) ==
  IF lt \in should_be_appended
  THEN LET o == ImplicitOpen(g, ln, buffer)
       IN  [o EXCEPT !.group_lines = Append(o.group_lines, ContentLine(o, ln, buffer))]
  ELSE g

NextBuffer_KeepsFirst(lt, ln, buffer) ==
  LET b == IF lt = "CHORDS" /\ buffer = <<>> THEN ln ELSE buffer
  IN  IF lt \in gobbles_chords THEN <<>> ELSE b

NextBuffer_NeverGobbles(lt, ln, buffer) ==
  IF lt = "CHORDS" THEN ln ELSE buffer

\* lines 183-187
NextBuffer(lt, ln, buffer) ==
  LET b == IF lt \notin should_be_appended /\ lt = "CHORDS" THEN ln ELSE buffer
  IN  IF lt \in gobbles_chords THEN <<>> ELSE b

\* lines 157-187: one iteration of the for loop, on the input line (lt, ln)
Iteration(lt, ln) ==
  /\ pc = "loop"
  /\ line_no < MaxLines
  /\ LET g0 == Group(output_lines, current_group_type, group_lines,
                     group_padding, merge_chords)
         g1 == OpenOrClose(g0, lt, ln)
         g2 == AppendLine(g1, lt, ln, chord_buffer)
     IN  /\ output_lines' = g2.output_lines
         /\ current_group_type' = g2.current_group_type
         /\ group_lines' = g2.group_lines
         /\ group_padding' = g2.group_padding
         /\ merge_chords' = g2.merge_chords
  /\ chord_buffer' = NextBuffer(lt, ln, chord_buffer)
  /\ line_type' = lt
  /\ line' = ln
  /\ line_no' = line_no + 1
  /\ pc' = "loop"
  /\ UNCHANGED <<song, formatted_lines>>
  /\ UNCHANGED <<merge_vars, classify_vars, list_vars>>

\* an exception leaves process_song: nothing is returned
Raise ==
  /\ pc' = "raised"
  /\ UNCHANGED <<line_no, line_type, line, chord_buffer, output_lines,
                 current_group_type, group_lines, group_padding, merge_chords,
                 song, formatted_lines>>
  /\ UNCHANGED <<merge_vars, classify_vars, list_vars>>

\* lines 346 and 352: the curated line `text` is cut into (text[0], text[4:]),
\* its type character goes through parse_line_type and the pair is handed to
\* format_annotated_lines.  text[0] of an empty line raises IndexError;
\* `None in group_start` (line 160) raises TypeError.
Curate(text) ==
  /\ pc = "loop"
  /\ line_no < MaxLines
  /\ edited' = text
  /\ IF text = <<>> THEN Raise
     ELSE IF parse_line_type(text[1]) = None THEN Raise
     ELSE Iteration(parse_line_type(text[1]), SliceFrom(text, 4))

ProcessEmpty == \E ln \in EmptyLines : Curate(format_line_annotation("EMPTY", ln))

ProcessChords == \E ln \in ChordLines : Curate(format_line_annotation("CHORDS", ln))

ProcessLabel == \E lt \in group_start : \E ln \in LabelLines : Curate(format_line_annotation(lt, ln))

ProcessText == \E ln \in TextLines : Curate(format_line_annotation("TEXT", ln))

\* lines 342-346: a line typed by predict_line_types that the curator accepts
ProcessPredicted == \E ln \in RawLines : Curate(format_line_annotation(predict_line_type(ln), ln))

\* a curated line that is not of the expected form
ProcessMalformed == \E text \in MalformedLines : Curate(text)

\* lines 189-192: the input is exhausted
EndOfInput ==
  /\ pc = "loop"
  /\ LET g0 == Group(output_lines, current_group_type, group_lines,
                     group_padding, merge_chords)
         g1 == IF current_group_type # None THEN end_group(g0) ELSE g0
     IN  /\ output_lines' = g1.output_lines
         /\ current_group_type' = g1.current_group_type
         /\ group_lines' = g1.group_lines
         /\ group_padding' = g1.group_padding
         /\ merge_chords' = g1.merge_chords
  /\ pc' = "done"
  /\ UNCHANGED <<line_no, line_type, line, chord_buffer, song, edited, formatted_lines>>
  /\ UNCHANGED <<merge_vars, classify_vars, list_vars>>

song_header_BeginFirst(sg) ==
  <<<<"\\", "b", "e", "g", "i", "n", "{", "s", "o", "n", "g", "}", "{", "}">>,
    <<"\\", "m", "y", "s", "o", "n", "g", "{">> \o sg.title \o <<"}", "{">>
      \o (sg.artist \o <<" ">> \o sg.release_year) \o <<"}", "{", "}">>>>

\* lines 353-354: the two lines inserted at the front, in their final order
song_header(sg) ==
  <<<<"\\", "m", "y", "s", "o", "n", "g", "{">> \o sg.title \o <<"}", "{">>
      \o (sg.artist \o <<" ">> \o sg.release_year) \o <<"}", "{", "}">>,
    <<"\\", "b", "e", "g", "i", "n", "{", "s", "o", "n", "g", "}", "{", "}">>>>

\* lines 355-356: the two lines appended at the end
song_footer ==
  <<<<"\\", "e", "n", "d", "{", "s", "o", "n", "g", "}">>,
    <<"\\", "p", "a", "g", "e", "b", "r", "e", "a", "k">>>>

\* lines 352-356: the document of the song
WrapSong ==
  /\ pc = "done"
  /\ formatted_lines' = (song_header(song) \o output_lines) \o song_footer
  /\ pc' = "wrapped"
  /\ UNCHANGED <<line_no, line_type, line, chord_buffer, output_lines,
                 current_group_type, group_lines, group_padding, merge_chords,
                 song, edited>>
  /\ UNCHANGED <<merge_vars, classify_vars, list_vars>>

Next ==
  \/ ProcessEmpty \/ ProcessChords \/ ProcessLabel \/ ProcessText
  \/ ProcessPredicted \/ ProcessMalformed \/ EndOfInput \/ WrapSong

Spec == Init /\ [][Next]_vars

(***************************************************************************)
(* merge as a specification of its own: one call on inputs drawn from      *)
(* bounded sets                                                            *)
(***************************************************************************)
InitMerge ==
  /\ AsmIdle
  /\ ClassifyIdle
  /\ ListIdle
  /\ m_pc = "call"
  /\ \E in \in MergeInputs :
       /\ m_base = in.base /\ m_details = in.details /\ m_optional = in.optional
  /\ m_merged = <<>>

CallMerge ==
  /\ m_pc = "call"
  /\ m_merged' = merge(m_base, m_details, m_optional)
  /\ m_pc' = "done"
  /\ UNCHANGED <<m_base, m_details, m_optional>>
  /\ UNCHANGED <<asm_vars, classify_vars, list_vars>>

NextMerge == CallMerge

SpecMerge == InitMerge /\ [][NextMerge]_vars

(***************************************************************************)
(* predict_line_types as a specification of its own: one line, drawn from  *)
(* bounded sets, is typed                                                  *)
(***************************************************************************)
\* n times the character c
RECURSIVE Repeat(_, _)
Repeat(c, n) == IF n <= 0 THEN <<>> ELSE <<c>> \o Repeat(c, n - 1)

\* lines made of an indentation, a run of letters outside A-H, a gap, a run of
\* note names and trailing blanks
PatternLines ==
  {Spaces(i) \o Repeat("x", w) \o Spaces(g) \o Repeat("A", n) \o Spaces(t) :
     i \in 0..MaxIndent, w \in 0..MaxWordRun, g \in 0..MaxGap,
     n \in 0..MaxNotes, t \in 0..MaxTrail}

SampleLabels ==
  {<<"v", "e", "r", "s", "e">>, <<"s", "o", "l", "o">>, <<"f", "o", "r", "k">>,
   <<"b", "r", "i", "d", "g", "e">>, <<"I", "n", "t", "r", "o">>,
   <<"o", "u", "t", "r", "o">>, <<"r", "e", "f", "r", "e", "n">>,
   <<"C", "h", "o", "r", "u", "s">>, <<"1", "2">>, <<"R">>, <<"r">>}

\* "<label>: la la la" for the sample labels, Scenario C, and "1. foo: bar"
SampleLines ==
  {l \o <<":", " ", "l", "a", " ", "l", "a", "l", "a", "l", "a">> : l \in SampleLabels}
    \cup {ChorusSingNow,
          <<"1", ".", " ", "f", "o", "o", ":", " ", "b", "a", "r">>}

ClassifyInputs == Strs(LineChars, MaxLineLen) \cup PatternLines \cup SampleLines

InitClassify ==
  /\ AsmIdle
  /\ MergeIdle
  /\ ListIdle
  /\ c_pc = "call" /\ c_line \in ClassifyInputs /\ c_type = None

\* lines 77-95, for the one line of the list
CallClassify ==
  /\ c_pc = "call"
  /\ c_type' = predict_line_type(c_line)
  /\ c_pc' = "done"
  /\ UNCHANGED c_line
  /\ UNCHANGED <<asm_vars, merge_vars, list_vars>>

NextClassify == CallClassify

SpecClassify == InitClassify /\ [][NextClassify]_vars

(***************************************************************************)
(* process_song_list: the loop over the songs of song_with_chords.json     *)
(***************************************************************************)
\* a song of the list: its title and whether it has the keys
\* 'annotated_lines' and 'formatted_lines'
SongTitles == <<"s1", "s2", "s3", "s4">>

SongLists ==
  UNION {[1..n -> BOOLEAN \X BOOLEAN] : n \in 0..MaxSongs}

AsSongs(flags) ==
  [i \in 1..Len(flags) |->
     [title |-> SongTitles[i], annotated_lines |-> flags[i][1],
      formatted_lines |-> flags[i][2]]]

\* lines 400-406: the choices of the menu
Format == "Format"
Skip == "Skip"
EditLineAnnotations == "Edit line annotations"
EditFormattedLines == "Edit formatted lines"
Exit == "Exit"

\* lines 337-391: the songs process_song can return.  Save returns the song
\* with 'formatted_lines' set, and with 'annotated_lines' set unless the stored
\* formatting was used all along; cancel returns it with both keys removed.
process_song(s, use_existing_annotations, use_existing_formatted) ==
  {[s EXCEPT !.annotated_lines = IF use_existing_formatted THEN @ ELSE TRUE,
             !.formatted_lines = TRUE],
   [s EXCEPT !.annotated_lines = TRUE, !.formatted_lines = TRUE],
   [s EXCEPT !.annotated_lines = FALSE, !.formatted_lines = FALSE]}

InitList ==
  /\ AsmIdle
  /\ MergeIdle
  /\ ClassifyIdle
  /\ \E flags \in SongLists :
       /\ loaded = AsSongs(flags)
       /\ songs = AsSongs(flags)
       /\ l_pc = (IF flags = <<>> THEN "written" ELSE "loop")
       /\ written = (IF flags = <<>> THEN <<>> ELSE None)
  /\ processed_song_list = <<>>
  /\ prev_song = None /\ song_index = 0 /\ curr_song = None /\ task = None

\* lines 410-411 and 435: a song is popped and the user picks `choice`
Pick(choice) ==
  /\ l_pc = "loop"
  /\ songs # <<>>
  /\ curr_song' = Head(songs)
  /\ songs' = Tail(songs)
  /\ task' = choice
  /\ UNCHANGED loaded
  /\ UNCHANGED <<asm_vars, merge_vars, classify_vars>>

\* lines 410 and 467-468: the loop goes on while the queue is not empty, then
\* the processed list is written back
LoopOrWrite(processed) ==
  /\ processed_song_list' = processed
  /\ IF Tail(songs) = <<>>
     THEN l_pc' = "written" /\ written' = processed
     ELSE l_pc' = "loop" /\ written' = written

ExitList_DropsQueue(processed, curr, queue) == Append(processed, curr)

\* lines 438-439
ExitList(processed, curr, queue) == Append(processed, curr) \o queue

\* lines 437-440 and 467-468: Exit
ChooseExit ==
  /\ Pick(Exit)
  /\ processed_song_list' = ExitList(processed_song_list, Head(songs), Tail(songs))
  /\ written' = processed_song_list'
  /\ l_pc' = "written"
  /\ UNCHANGED <<prev_song, song_index>>

\* lines 442-451: Skip
ChooseSkip ==
  /\ Pick(Skip)
  /\ prev_song' = Head(songs)
  /\ song_index' = song_index + 1
  /\ LoopOrWrite(Append(processed_song_list, Head(songs)))

\* lines 442-458: the song goes through process_song, which returns it
Processed(choice) ==
  /\ Pick(choice)
  /\ prev_song' = Head(songs)
  /\ song_index' = song_index + 1
  /\ \E processed_song \in process_song(Head(songs), choice = EditLineAnnotations,
                                         choice = EditFormattedLines) :
       LoopOrWrite(Append(processed_song_list, processed_song))

\* line 453, when process_song raises (lines 346 and 352): the exception
\* leaves process_song_list and line 468 is not reached
ProcessRaises ==
  /\ \E choice \in {Format, EditLineAnnotations, EditFormattedLines} :
       /\ Pick(choice)
       /\ choice = EditLineAnnotations => Head(songs).annotated_lines
       /\ choice = EditFormattedLines => Head(songs).formatted_lines
  /\ prev_song' = Head(songs)
  /\ song_index' = song_index + 1
  /\ l_pc' = "raised"
  /\ UNCHANGED <<processed_song_list, written>>

ChooseFormat == Processed(Format)

\* lines 419-420: offered when the song has 'annotated_lines'
ChooseEditLineAnnotations ==
  /\ songs # <<>> /\ Head(songs).annotated_lines
  /\ Processed(EditLineAnnotations)

\* lines 421-422: offered when the song has 'formatted_lines'
ChooseEditFormattedLines ==
  /\ songs # <<>> /\ Head(songs).formatted_lines
  /\ Processed(EditFormattedLines)

NextList ==
  \/ ChooseExit \/ ChooseSkip \/ ChooseFormat \/ ChooseEditLineAnnotations
  \/ ChooseEditFormattedLines \/ ProcessRaises

SpecList == InitList /\ [][NextList]_vars

(***************************************************************************)
(* Reading the emitted text back                                           *)
(***************************************************************************)
\* the first position >= i of s that holds character c, or Len(s) + 1
RECURSIVE Find(_, _, _)
Find(s, c, i) ==
  IF i > Len(s) THEN Len(s) + 1
  ELSE IF s[i] = c THEN i ELSE Find(s, c, i + 1)

\* the commands \name{symbol} of a text, left to right, with their positions
RECURSIVE CommandsFrom(_, _)
CommandsFrom(s, i) ==
  IF i > Len(s) THEN <<>>
  ELSE IF s[i] = "\\"
  THEN LET j == Find(s, "{", i)
           k == Find(s, "}", j)
       IN  <<[start |-> i, stop |-> k, name |-> SubSeq(s, i + 1, j - 1),
              symbol |-> SubSeq(s, j + 1, k - 1)]>> \o CommandsFrom(s, k + 1)
  ELSE CommandsFrom(s, i + 1)

Commands(s) == CommandsFrom(s, 1)

\* the text with its commands and join markers deleted
RECURSIVE StripMarkup(_, _)
StripMarkup(s, i) ==
  IF i > Len(s) THEN <<>>
  ELSE IF s[i] = "\\" THEN StripMarkup(s, Find(s, "}", i) + 1)
  ELSE IF s[i] = "~" THEN StripMarkup(s, i + 1)
  ELSE <<s[i]>> \o StripMarkup(s, i + 1)

NonSpace(s) == SelectSeq(s, LAMBDA c : c # " ")

\* a is a subsequence of b
RECURSIVE IsSubsequence(_, _)
IsSubsequence(a, b) ==
  IF a = <<>> THEN TRUE
  ELSE IF b = <<>> THEN FALSE
  ELSE IF Head(a) = Head(b) THEN IsSubsequence(Tail(a), Tail(b))
  ELSE IsSubsequence(a, Tail(b))

Blank(s) == \A i \in 1..Len(s) : s[i] = " "

\* the tokens of a chord line: its maximal runs of non-blank characters, by
\* increasing column (columns count from 0)
TokenStarts(d) ==
  {i \in 1..Len(d) : d[i] # " " /\ (i = 1 \/ d[i - 1] = " ")}

TokenEnd(d, i) ==
  CHOOSE j \in i..Len(d) :
    /\ \A k \in i..j : d[k] # " "
    /\ (j = Len(d) \/ d[j + 1] = " ")

RECURSIVE TokensOf(_, _)
TokensOf(d, starts) ==
  IF starts = {} THEN <<>>
  ELSE LET i == CHOOSE x \in starts : \A y \in starts : x <= y
       IN  <<[column |-> i - 1, symbol |-> SubSeq(d, i, TokenEnd(d, i))]>>
             \o TokensOf(d, starts \ {i})

Tokens(d) == TokensOf(d, TokenStarts(d))

\* the lyric line seen as padded with blanks on the right
CharAt(l, col) == IF col + 1 <= Len(l) THEN l[col + 1] ELSE " "

\* columns from..to-1 of the padded lyric line hold a blank
SpanHasSpace(l, from, to) == \E col \in from..(to - 1) : CharAt(l, col) = " "

\* the column where the span of the last token of chord line d ends
LineEnd(l, d) == Max(Len(l), Len(d))

\* the span of token k of chord line d over lyric line l holds a blank
TokenSpanHasSpace(l, d, k) ==
  LET ts == Tokens(d)
  IN  SpanHasSpace(l, ts[k].column,
                   IF k < Len(ts) THEN ts[k + 1].column ELSE LineEnd(l, d))

IsStarName(name) == name # <<>> /\ name[Len(name)] = "*"

mchord == <<"m", "c", "h", "o", "r", "d">>
ochord == <<"o", "c", "h", "o", "r", "d">>

(***************************************************************************)
(* Claims about merge (specification SpecMerge)                            *)
(***************************************************************************)
MergeDone == m_pc = "done"

\* C1: in the line merge returns no two chord commands are textually adjacent:
\* at least one character stands between any two consecutive commands.
C1_NoCollision ==
  MergeDone =>
    LET cs == Commands(m_merged)
    IN  \A k \in 1..(Len(cs) - 1) : cs[k + 1].start > cs[k].stop + 1

\* C1 witness: a lyric shorter than the chord line received two commands that
\* are kept apart by the two characters of the shortest possible span.
C1_Witness ==
  /\ MergeDone
  /\ Len(m_base) < Len(m_details)
  /\ LET cs == Commands(m_merged)
     IN  Len(cs) >= 2 /\ cs[2].start = cs[1].stop + 3

\* C2: deleting the chord commands and the join markers from the merged line
\* leaves a text in which every non-blank character of the lyric line occurs,
\* in the order of the lyric line.
C2_NoLyricLost ==
  MergeDone => IsSubsequence(NonSpace(m_base), StripMarkup(m_merged, 1))

\* C2 witness: a lyric with both letters got a starred chord with its forced
\* space.
C2_Witness ==
  /\ MergeDone
  /\ Contains(m_base, "a") /\ Contains(m_base, "b")
  /\ \E k \in 1..Len(Commands(m_merged)) : IsStarName(Commands(m_merged)[k].name)

\* C3: the merged line holds exactly one chord command per token of the chord
\* line, and the k-th command from the left carries the symbol of the k-th
\* token.
C3_OrderPreserved ==
  MergeDone =>
    LET cs == Commands(m_merged)
        ts == Tokens(m_details)
    IN  /\ Len(cs) = Len(ts)
        /\ \A k \in 1..Len(ts) : cs[k].symbol = ts[k].symbol

\* C3 witness: a chord line with two different tokens was merged.
C3_Witness ==
  /\ MergeDone
  /\ Len(Tokens(m_details)) = 2
  /\ Tokens(m_details)[1].symbol # Tokens(m_details)[2].symbol
  /\ Len(Commands(m_merged)) = 2

\* C7: with an empty or all-blank chord line merge returns the lyric line
\* unchanged, whatever the optional flag.
C7_BlankChordsIdentity ==
  (MergeDone /\ Blank(m_details)) => m_merged = m_base

\* C7 witness: a non-empty all-blank chord line over a lyric with a trailing
\* blank.
C7_Witness ==
  /\ MergeDone
  /\ m_details # <<>> /\ Blank(m_details)
  /\ m_base # <<>> /\ m_base[Len(m_base)] = " " /\ ~Blank(m_base)
  /\ m_merged = m_base

ScenarioA == m_base = HelloWorldToday /\ m_details = C_G7 /\ ~m_optional

\* C8 as stated: "C" at column 0 and "G7" at column 8 over "Hello world today"
\* gives \mchord{C}Hello \mchord{G7}world today.
C8_AsStated ==
  (MergeDone /\ ScenarioA) =>
    m_merged = <<"\\", "m", "c", "h", "o", "r", "d", "{", "C", "}",
                 "H", "e", "l", "l", "o", " ",
                 "\\", "m", "c", "h", "o", "r", "d", "{", "G", "7", "}",
                 "w", "o", "r", "l", "d", " ", "t", "o", "d", "a", "y">>

\* C8 amended: "C" at column 0 and "G7" at column 8 over "Hello world today"
\* gives \mchord{C}Hello wo\mchord{G7}rld today: the second command stands
\* before the character of column 8, which is the "r" of "world".
C8_ScenarioA ==
  (MergeDone /\ ScenarioA) =>
    m_merged = <<"\\", "m", "c", "h", "o", "r", "d", "{", "C", "}",
                 "H", "e", "l", "l", "o", " ", "w", "o",
                 "\\", "m", "c", "h", "o", "r", "d", "{", "G", "7", "}",
                 "r", "l", "d", " ", "t", "o", "d", "a", "y">>

\* C8 witness: Scenario A has been merged.
C8_Witness == MergeDone /\ ScenarioA /\ Len(Commands(m_merged)) = 2

\* C9 as stated: a chord command is starred exactly when its span (to the
\* next token's column, or to the line end for the last token) holds no
\* whitespace, the last token included.
C9_AsStated ==
  MergeDone =>
    LET cs == Commands(m_merged)
    IN  \A k \in 1..Len(cs) :
          IsStarName(cs[k].name) <=> ~TokenSpanHasSpace(m_base, m_details, k)

\* C9 amended: a chord command is starred exactly when its token is not the
\* last one of the chord line and its span, up to the next token's column,
\* holds no whitespace; the command of the last (or only) token is never
\* starred and no space is forced after its span.
C9_StarredIffInnerCollision ==
  MergeDone =>
    LET cs == Commands(m_merged)
    IN  \A k \in 1..Len(cs) :
          IsStarName(cs[k].name)
            <=> (k < Len(cs) /\ ~TokenSpanHasSpace(m_base, m_details, k))

\* C9 witness: the first of two chords is starred while the span of the last
\* one holds no whitespace either.
C9_Witness ==
  /\ MergeDone
  /\ Len(Commands(m_merged)) = 2
  /\ IsStarName(Commands(m_merged)[1].name)
  /\ ~TokenSpanHasSpace(m_base, m_details, 2)
  /\ ~IsStarName(Commands(m_merged)[2].name)

(***************************************************************************)
(* Claims about format_annotated_lines (specification Spec)                *)
(***************************************************************************)
IsBeginLine(l) ==
  Len(l) >= 7 /\ SubSeq(l, 1, 7) = <<"\\", "b", "e", "g", "i", "n", "{">>

IsEndLine(l) ==
  Len(l) >= 5 /\ SubSeq(l, 1, 5) = <<"\\", "e", "n", "d", "{">>

\* the name between the braces of a marker line
MarkerName(l) == SubSeq(l, Find(l, "{", 1) + 1, Len(l) - 1)

NoGroup == <<"-">>
Unpaired == <<"!">>

\* the name of the group left open by the marker lines of ls when the group
\* `open` was open before them; Unpaired if a \begin meets an open group or a
\* \end meets no open group or a group of another name
RECURSIVE OpenAfter(_, _)
OpenAfter(ls, open) ==
  IF ls = <<>> \/ open = Unpaired THEN open
  ELSE LET l == Head(ls)
       IN  IF IsBeginLine(l)
           THEN OpenAfter(Tail(ls), IF open = NoGroup THEN MarkerName(l) ELSE Unpaired)
           ELSE IF IsEndLine(l)
           THEN OpenAfter(Tail(ls), IF open # NoGroup /\ open = MarkerName(l)
                                    THEN NoGroup ELSE Unpaired)
           ELSE OpenAfter(Tail(ls), open)

\* C4 as stated: after the assembler has processed an Empty line the pending
\* chord buffer is empty, whether or not a group was open.
C4_EmptyClearsBuffer ==
  (pc = "loop" /\ line_type = "EMPTY") => chord_buffer = <<>>

\* C5: the group markers of the output are properly paired and never nested:
\* every \begin{name} is followed, before any other \begin, by an \end{name}
\* of the same name, no \end is emitted while no group is open, and at end of
\* input no group is left open.
C5_MarkersPaired ==
  LET open == OpenAfter(output_lines, NoGroup)
  IN  /\ open # Unpaired
      /\ pc = "done" => open = NoGroup

\* C5 witness: the finished output holds a group that was closed by the label
\* of the next group, and a second group closed at end of input.
C5_Witness ==
  /\ pc = "done"
  /\ \E i \in 1..(Len(output_lines) - 1) :
       /\ IsEndLine(output_lines[i]) /\ IsBeginLine(output_lines[i + 1])
       /\ MarkerName(output_lines[i]) # MarkerName(output_lines[i + 1])
  /\ IsEndLine(output_lines[Len(output_lines)])

\* C6 as stated: at end of input, if a chord buffer is still pending and the
\* group closed there was a with-chords group, the raw text of the buffer is
\* the trailing line of the output.
C6_TrailingBufferEmitted ==
  [][(pc = "loop" /\ pc' = "done" /\ ~Blank(chord_buffer)
        /\ current_group_type \in has_chords)
       => (output_lines' # <<>>
             /\ output_lines'[Len(output_lines')] = chord_buffer)]_vars

inlinechordName == <<"i", "n", "l", "i", "n", "e", "c", "h", "o", "r", "d">>

\* the names a chord command may carry in a group
ChordNames(withChords) ==
  IF withChords THEN {mchord, mchord \o <<"*">>} ELSE {ochord, ochord \o <<"*">>}

\* C10 as stated: every chord command of a content line is \mchord in a
\* with-chords group and \ochord in any other group, with * appended when
\* starred, followed by {symbol}.
C10_AsStated ==
  \A i \in 1..Len(group_lines) :
    \A k \in 1..Len(Commands(group_lines[i])) :
      Commands(group_lines[i])[k].name \in ChordNames(current_group_type \in has_chords)

\* name and symbol of the commands of a text
NamesAndSymbols(s) ==
  [k \in 1..Len(Commands(s)) |->
     [name |-> Commands(s)[k].name, symbol |-> Commands(s)[k].symbol]]

\* the commands the tokens of chord line d yield over lyric line l
ExpectedCommands(l, d, withChords) ==
  [k \in 1..Len(Tokens(d)) |->
     [name |-> (IF withChords THEN mchord ELSE ochord)
                 \o (IF k < Len(Tokens(d)) /\ ~TokenSpanHasSpace(l, d, k)
                     THEN <<"*">> ELSE <<>>),
      symbol |-> Tokens(d)[k].symbol]]

\* C10 amended: every chord command that the assembler merges into a content
\* line is \mchord when the enclosing group has withChords = true and \ochord
\* when it is false, with * appended to the name exactly when the command is
\* starred, followed by {symbol}; the content lines of a plain Solo group are
\* the exception: the chord buffer is not merged into them and each of their
\* own tokens is emitted as \inlinechord{token}.
C10_ChordCommandForm ==
  [][(pc = "loop" /\ line_no' = line_no + 1 /\ line_type' \in should_be_appended)
       => LET new == group_lines'[Len(group_lines')]
              lyric == SliceFrom(line', group_padding')
              buffer == SliceFrom(chord_buffer, group_padding')
          IN  IF current_group_type' = "SOLO"
              THEN \A k \in 1..Len(Commands(new)) :
                     Commands(new)[k].name = inlinechordName
              ELSE NamesAndSymbols(new)
                     = ExpectedCommands(lyric, buffer, current_group_type' \in has_chords)]_vars

\* C10 witness: a content line of a with-chords group holds a starred and a
\* plain mandatory chord command.
C10_Witness ==
  /\ current_group_type \in has_chords
  /\ \E i \in 1..Len(group_lines) :
       LET cs == Commands(group_lines[i])
       IN  /\ Len(cs) = 2
           /\ cs[1].name = mchord \o <<"*">>
           /\ cs[2].name = mchord

(***************************************************************************)
(* Claims about the layout of the groups (specification Spec)              *)
(***************************************************************************)
\* the line ends with the continuation terminator " \\"
HasTerminator(l) ==
  Len(l) >= 3 /\ SubSeq(l, Len(l) - 2, Len(l)) = <<" ", "\\", "\\">>

IsContentLine(l) == ~IsBeginLine(l) /\ ~IsEndLine(l)

\* C11: in every emitted group each content line except the last carries the
\* continuation terminator " \\", the last content line carries none, and the
\* \end marker immediately follows that last content line.
C11_Continuation ==
  \A i \in 1..Len(output_lines) :
    IsContentLine(output_lines[i]) =>
      /\ i < Len(output_lines)
      /\ ~IsBeginLine(output_lines[i + 1])
      /\ HasTerminator(output_lines[i]) <=> IsContentLine(output_lines[i + 1])
      /\ ~HasTerminator(output_lines[i]) <=> IsEndLine(output_lines[i + 1])

\* C11 witness: an emitted group of at least two content lines: one with the
\* terminator, then the last one without it, then the \end marker.
C11_Witness ==
  \E i \in 1..(Len(output_lines) - 2) :
    /\ IsContentLine(output_lines[i]) /\ HasTerminator(output_lines[i])
    /\ IsContentLine(output_lines[i + 1]) /\ ~HasTerminator(output_lines[i + 1])
    /\ IsEndLine(output_lines[i + 2])

(***************************************************************************)
(* Claims about the document and the group names (specification Spec)      *)
(***************************************************************************)
\* C12: the document of a song is, in order, the header
\* \mysong{title}{artist year}{}, then \begin{song}{}, then the output of the
\* assembler unchanged and in order, then \end{song}, then \pagebreak as the
\* last line; also when the assembler emitted nothing.
C12_Document ==
  pc = "wrapped" =>
    LET n == Len(output_lines)
    IN  /\ Len(formatted_lines) = n + 4
        /\ formatted_lines[1]
             = <<"\\", "m", "y", "s", "o", "n", "g", "{">> \o song.title
                 \o <<"}", "{">> \o song.artist \o <<" ">> \o song.release_year
                 \o <<"}", "{", "}">>
        /\ formatted_lines[2]
             = <<"\\", "b", "e", "g", "i", "n", "{", "s", "o", "n", "g", "}", "{", "}">>
        /\ \A i \in 1..n : formatted_lines[i + 2] = output_lines[i]
        /\ formatted_lines[n + 3] = <<"\\", "e", "n", "d", "{", "s", "o", "n", "g", "}">>
        /\ formatted_lines[n + 4]
             = <<"\\", "p", "a", "g", "e", "b", "r", "e", "a", "k">>

\* C12 witness: the document of a titled song whose lines formed a group.
C12_Witness ==
  /\ pc = "wrapped"
  /\ song.title # <<>>
  /\ Len(output_lines) >= 3
  /\ Len(formatted_lines) = Len(output_lines) + 4

\* the kind of a group type and the fixed kind-to-name table
KindOf(group_type) ==
  CASE group_type \in {"VERSE", "VERSE_WITH_CHORDS"} -> "Verse"
    [] group_type \in {"CHORUS", "CHORUS_WITH_CHORDS"} -> "Chorus"
    [] group_type \in {"BRIDGE", "BRIDGE_WITH_CHORDS"} -> "Bridge"
    [] group_type \in {"SOLO", "SOLO_WITH_CHORDS"} -> "Solo"

NameOfKind(kind) ==
  CASE kind = "Verse" -> <<"v", "e", "r", "s", "e">>
    [] kind = "Chorus" -> <<"r", "e", "f", "r", "e", "n">>
    [] kind = "Bridge" -> <<"d", "e", "c", "o">>
    [] kind = "Solo" -> <<"s", "o", "l", "o">>

\* the last \begin marker of the lines ls (there is one)
LastBegin(ls) ==
  ls[CHOOSE i \in 1..Len(ls) :
       IsBeginLine(ls[i]) /\ \A j \in (i + 1)..Len(ls) : ~IsBeginLine(ls[j])]

\* C13: the marker of a group carries the name the fixed table gives its kind
\* (Verse -> verse, Chorus -> refren, Bridge -> deco, Solo -> solo), with or
\* without chords; and the raw line "Chorus: Sing now" is typed as a Chorus
\* label whose group opens with \begin{refren}.
C13_GroupNames ==
  /\ current_group_type # None =>
       /\ \E i \in 1..Len(output_lines) : IsBeginLine(output_lines[i])
       /\ LastBegin(output_lines)
            = <<"\\", "b", "e", "g", "i", "n", "{">>
                \o NameOfKind(KindOf(current_group_type)) \o <<"}">>
  /\ \A i \in 1..Len(output_lines) :
       IsEndLine(output_lines[i]) =>
         \E k \in {"Verse", "Chorus", "Bridge", "Solo"} :
           output_lines[i] = <<"\\", "e", "n", "d", "{">> \o NameOfKind(k) \o <<"}">>
  /\ (pc = "loop" /\ line = ChorusSingNow) =>
       /\ line_type = "CHORUS"
       /\ LastBegin(output_lines)
            = <<"\\", "b", "e", "g", "i", "n", "{", "r", "e", "f", "r", "e", "n", "}">>

\* C13 witness: "Chorus: Sing now" has just opened its group, after an
\* earlier group was closed.
C13_Witness ==
  /\ pc = "loop" /\ line = ChorusSingNow /\ line_type = "CHORUS"
  /\ current_group_type = "CHORUS"
  /\ \E i \in 1..Len(output_lines) : IsEndLine(output_lines[i])

(***************************************************************************)
(* Claims about the classifier (specification SpecClassify)                *)
(***************************************************************************)
ClassifyDone == c_pc = "done"

\* the positions of the non-blank characters of s
Inked(s) == {i \in 1..Len(s) : s[i] # " "}

\* s without its leading and trailing blanks (s is not blank)
Trimmed(s) ==
  SubSeq(s, CHOOSE i \in Inked(s) : \A j \in Inked(s) : i <= j,
            CHOOSE i \in Inked(s) : \A j \in Inked(s) : i >= j)

\* the density test on a text: W > C - 4 and C - B < 8
Dense(s) ==
  LET C == Cardinality(Inked(s))
      W == Len(s) - C
      B == Cardinality({i \in 1..Len(s) : s[i] \in {"A", "B", "C", "D", "E", "F", "G", "H"}})
  IN  W > C - 4 /\ C - B < 8

\* C14 as stated: a non-blank line is typed ChordLine if and only if the
\* density test W > C - 4 and C - B < 8 holds of the line with both its leading
\* and its trailing whitespace stripped.
C14_AsStated ==
  (ClassifyDone /\ Inked(c_line) # {}) =>
    (c_type = "CHORDS" <=> Dense(Trimmed(c_line)))

\* the label of a line as the claims read it: the text before the first
\* separator, without surrounding blanks
RawLabel(s) ==
  LET seps == {i \in 1..Len(s) : s[i] \in {".", ":"}}
      first == CHOOSE i \in seps : \A j \in seps : i <= j
      before == SubSeq(s, 1, first - 1)
  IN  IF Inked(before) = {} THEN <<>> ELSE Trimmed(before)

IsLabelType(t) ==
  t \in {"VERSE", "CHORUS", "BRIDGE", "SOLO", "VERSE_WITH_CHORDS",
         "CHORUS_WITH_CHORDS", "BRIDGE_WITH_CHORDS", "SOLO_WITH_CHORDS"}

\* the kind C15 gives a lowercased label
StatedKind(label) ==
  IF label # <<>> /\ \A i \in 1..Len(label) : label[i] \in Digits THEN "Verse"
  ELSE IF \/ HasSubstring(label, <<"b", "r", "i", "d", "g", "e">>)
          \/ HasSubstring(label, <<"*">>)
          \/ HasSubstring(label, <<"i", "n", "t", "r", "o">>)
          \/ HasSubstring(label, <<"o", "u", "t", "r", "o">>) THEN "Bridge"
  ELSE IF \/ HasSubstring(label, <<"c", "h", "o", "r", "u", "s">>)
          \/ HasSubstring(label, <<"r", "e", "f", "r", "e", "n">>)
          \/ label = <<"r">> THEN "Chorus"
  ELSE "Solo"

\* C15 as stated: the kind of a section label follows from the lowercased
\* label by first match: all digits -> Verse; contains bridge, *, intro or
\* outro -> Bridge; contains chorus or refren, or is exactly r -> Chorus;
\* anything else -> Solo.
C15_AsStated ==
  (ClassifyDone /\ IsLabelType(c_type)) =>
    KindOf(c_type) = StatedKind(Lower(RawLabel(c_line)))

\* the label is written in uppercase style: it holds an uppercase letter
UppercaseStyle(label) == label # Lower(label)

\* C16 as stated: the classifier sets withChords from the case of the original
\* label: an uppercase-style label gives the with-chords variant of its kind,
\* a lowercase-style label the plain variant.
C16_AsStated ==
  (ClassifyDone /\ IsLabelType(c_type)) =>
    (c_type \in has_chords <=> UppercaseStyle(RawLabel(c_line)))

\* C16 amended: the classifier never sets withChords: whatever the case of the
\* original label, a line typed as a section label gets the plain variant of
\* its kind (VERSE, CHORUS, BRIDGE or SOLO), so classify returns no
\* with-chords section label.
C16_NeverWithChords ==
  ClassifyDone =>
    c_type \in {"EMPTY", "CHORDS", "TEXT", "VERSE", "CHORUS", "BRIDGE", "SOLO"}

\* C16 witness: a line whose label is written in uppercase style was typed as
\* a plain section label.
C16_Witness ==
  /\ ClassifyDone
  /\ c_type \in {"VERSE", "CHORUS", "BRIDGE", "SOLO"}
  /\ UppercaseStyle(RawLabel(c_line))

(***************************************************************************)
(* Claims about curated lines (specification Spec)                         *)
(***************************************************************************)
\* the curated line does not have the form "<type char> > <text>"
Malformed(text) ==
  \/ Len(text) < 4
  \/ parse_line_type(text[1]) = None
  \/ SubSeq(text, 2, 4) # <<" ", ">", " ">>

\* C17 as stated: when a curated line does not match the "<type char> > <text>"
\* encoding (an empty edited line and an unknown type character included), the
\* line is treated as PlainText and the compilation of the song goes on without
\* raising.
C17_AsStated ==
  (Malformed(edited) /\ (line_no > 0 \/ pc = "raised")) =>
    (pc # "raised" /\ line_type = "TEXT")

(***************************************************************************)
(* Claims about the spans of merge (specification SpecMerge)               *)
(***************************************************************************)
\* the column after the last non-blank character of a chord line that is not
\* blank
LastInk(d) == CHOOSE i \in Inked(d) : \A j \in Inked(d) : i >= j

\* the lyric line, padded on the right up to the end of the chord line
PaddedBase ==
  m_base \o [i \in 1..(LastInk(m_details) - Len(m_base)) |-> " "]

\* the span of token k: the padded lyric from the column of the token up to
\* the column of the next token, or to the end of the line
SpanIn(k) ==
  LET ts == Tokens(m_details)
  IN  SubSeq(PaddedBase, ts[k].column + 1,
             IF k < Len(ts) THEN ts[k + 1].column ELSE Len(PaddedBase))

\* what the merged line holds after command k, up to the next command or to
\* the end of the line
SpanOut(k) ==
  LET cs == Commands(m_merged)
  IN  SubSeq(m_merged, cs[k].stop + 1,
             IF k < Len(cs) THEN cs[k + 1].start - 1 ELSE Len(m_merged))

HasSpace(s) == \E i \in 1..Len(s) : s[i] = " "

\* the reach of a chord symbol: max(len(symbol) + 1, 3), and 2 more when the
\* symbol holds the letter m in either case
Reach(symbol) ==
  (IF Len(symbol) + 1 > 3 THEN Len(symbol) + 1 ELSE 3)
    + (IF \E i \in 1..Len(symbol) : symbol[i] \in {"m", "M"} THEN 2 ELSE 0)

\* s with one space put in after its first n characters
ForcedAt(s, n) == SubSeq(s, 1, n) \o <<" ">> \o SubSeq(s, n + 1, Len(s))

\* s with the blanks among its first r characters turned into join markers
Joined(s, r) == [i \in 1..Len(s) |-> IF i <= r /\ s[i] = " " THEN "~" ELSE s[i]]

\* s holds a blank beyond its first r characters
HasFarSpace(s, r) == \E i \in (r + 1)..Len(s) : s[i] = " "

MergedChords == MergeDone /\ ~Blank(m_details)

\* C18 as stated: when the span of a chord (one that has a next chord) holds no
\* whitespace, exactly one space is force-injected and it stands at the end of
\* the span, right before the next chord command, not inside the span.
C18_AsStated ==
  MergedChords =>
    \A k \in 1..(Len(Tokens(m_details)) - 1) :
      ~HasSpace(SpanIn(k)) => SpanOut(k) = SpanIn(k) \o <<" ">>

\* C18 amended: when the span of a chord that is not the last one holds no
\* whitespace, exactly one space is force-injected: after the first r
\* characters of the span when the span has at least r characters (so inside
\* the span when it is longer than r), at the end of the span otherwise; the
\* span of the last chord gets no forced space.
C18_ForcedSpace ==
  MergedChords =>
    \A k \in 1..Len(Tokens(m_details)) :
      ~HasSpace(SpanIn(k)) =>
        SpanOut(k) =
          IF k = Len(Tokens(m_details)) THEN SpanIn(k)
          ELSE ForcedAt(SpanIn(k),
                        Min(Reach(Tokens(m_details)[k].symbol), Len(SpanIn(k))))

\* C18 witness: a span without whitespace that is longer than the reach of its
\* chord got its forced space inside.
C18_Witness ==
  /\ MergedChords
  /\ \E k \in 1..(Len(Tokens(m_details)) - 1) :
       LET r == Reach(Tokens(m_details)[k].symbol)
       IN  /\ ~HasSpace(SpanIn(k))
           /\ Len(SpanIn(k)) > r
           /\ SpanOut(k)[r + 1] = " "
           /\ SpanOut(k)[Len(SpanOut(k))] # " "

\* C19 as stated: for every chord that is not starred, with reach r, exactly
\* the whitespace characters among the first r characters of its span are
\* replaced by '~' and the whitespace beyond is left unchanged, whether or not
\* the span has whitespace beyond the reach.
C19_AsStated ==
  MergedChords =>
    \A k \in 1..Len(Tokens(m_details)) :
      ~IsStarName(Commands(m_merged)[k].name) =>
        SpanOut(k) = Joined(SpanIn(k), Reach(Tokens(m_details)[k].symbol))

\* C19 amended: for every chord that is not starred, with reach r =
\* max(len(symbol) + 1, 3), plus 2 if the lowercased symbol holds the letter m:
\* when its span has whitespace beyond the first r characters, exactly the
\* whitespace characters among the first r characters of the span are replaced
\* by '~' and the whitespace beyond is left unchanged; when the span has no
\* whitespace beyond the first r characters, the span is left unchanged.
C19_JoinMarkers ==
  MergedChords =>
    \A k \in 1..Len(Tokens(m_details)) :
      ~IsStarName(Commands(m_merged)[k].name) =>
        SpanOut(k) =
          LET r == Reach(Tokens(m_details)[k].symbol)
          IN  IF HasFarSpace(SpanIn(k), r) THEN Joined(SpanIn(k), r)
              ELSE SpanIn(k)

\* C19 witness: the first chord got a join marker in its reach, after a
\* letter, and kept a blank beyond it; the second kept the blank in its reach
\* because its span has none beyond.
C19_Witness ==
  /\ MergedChords
  /\ Len(Tokens(m_details)) = 2
  /\ ~IsStarName(Commands(m_merged)[1].name)
  /\ SpanOut(1)[1] # "~" /\ Contains(SpanOut(1), "~") /\ Contains(SpanOut(1), " ")
  /\ HasSpace(SpanIn(2)) /\ SpanOut(2) = SpanIn(2)

\* C20 as stated: with a chord line that is not blank, a lyric line shorter
\* than the chord line is padded with spaces on the right before it is
\* processed, and the merged line never ends with a whitespace character.
C20_AsStated ==
  MergedChords =>
    /\ Len(StripMarkup(m_merged, 1)) >= LastInk(m_details)
    /\ m_merged # <<>> /\ m_merged[Len(m_merged)] # " "

(***************************************************************************)
(* Claims about the columns of the assembler (specification Spec)          *)
(***************************************************************************)
\* the assembler has just processed a line that gave a content line
ContentStep ==
  pc = "loop" /\ line_no' = line_no + 1 /\ line_type' \in should_be_appended

\* the column of the lyric before which command k of content line s stands:
\* the characters to its left that are neither the indentation of 3 blanks,
\* nor an earlier command, nor the forced space of an earlier starred command
LyricColumn(s, k) ==
  LET cs == Commands(s)
  IN  (cs[k].start - 1) - 3
        - Sum([i \in 1..(k - 1) |-> cs[i].stop - cs[i].start + 1])
        - Cardinality({i \in 1..(k - 1) : IsStarName(cs[i].name)})

Before(s, c) == SubSeq(s, 1, Find(s, c, 1) - 1)

\* the label candidate of C22: the text before the first ":" when the line
\* holds one, else the text before the first "."; NoLabel when it holds neither
LabelCandidate(s) ==
  IF Contains(s, ":") THEN Before(s, ":")
  ELSE IF Contains(s, ".") THEN Before(s, ".")
  ELSE NoLabel

\* no blank stands between two non-blank characters of s
NoInnerSpace(s) ==
  \A i \in Inked(s) : \A j \in Inked(s) : \A k \in i..j : s[k] # " "

\* C22 as stated: the label of a line is the text before its first ":" when
\* it holds a ":", and the text before its first "." only when it holds no
\* ":"; a line that is neither blank nor a chord line is typed as a section
\* label exactly when that candidate exists and has no internal whitespace,
\* and as PlainText otherwise ("1. foo: bar" has the candidate "1. foo" and
\* is PlainText).
C22_AsStated ==
  (ClassifyDone /\ c_type \notin {"EMPTY", "CHORDS"}) =>
    IF LabelCandidate(c_line) # NoLabel /\ NoInnerSpace(LabelCandidate(c_line))
    THEN IsLabelType(c_type)
    ELSE c_type = "TEXT"

(***************************************************************************)
(* Claims about the steps of the assembler (specification Spec)            *)
(***************************************************************************)
\* C23: processing a ChordLine changes the pending chord buffer only, which
\* becomes this line: nothing is appended to the output, no group is opened or
\* closed, and the kind, withChords, paddingWidth and content lines of the
\* current group stay as they are.
C23_ChordLineFrame ==
  [][(pc = "loop" /\ line_no' = line_no + 1 /\ line_type' = "CHORDS")
       => /\ chord_buffer' = line'
          /\ output_lines' = output_lines
          /\ current_group_type' = current_group_type
          /\ merge_chords' = merge_chords
          /\ group_padding' = group_padding
          /\ group_lines' = group_lines]_vars

\* C23 witness: a chord line was processed, as third line or later, inside an
\* open group that has content and a positive padding width.
C23_Witness ==
  /\ pc = "loop" /\ line_type = "CHORDS" /\ line_no >= 3
  /\ current_group_type # None /\ group_lines # <<>> /\ group_padding > 0
  /\ chord_buffer = line
  /\ chord_buffer = <<"C", " ", "C", "m">>

\* the number of leading blanks of a line
LeadingBlanks(s) ==
  IF Inked(s) = {} THEN Len(s)
  ELSE (CHOOSE i \in Inked(s) : \A j \in Inked(s) : i <= j) - 1

BeginVerse == <<"\\", "b", "e", "g", "i", "n", "{", "v", "e", "r", "s", "e", "}">>

\* C24: a PlainText line processed while no group is open opens a Verse group:
\* \begin{verse} is emitted, withChords is true iff the pending chord buffer is
\* not empty, paddingWidth is the number of leading blanks of the line, and the
\* line becomes the first content line of the group, merged with the buffer
\* (one command per token of the buffer from column paddingWidth on, around
\* the characters of the line).
C24_ImplicitVerse ==
  [][(ContentStep /\ line_type' = "TEXT" /\ current_group_type = None)
       => /\ output_lines' = Append(output_lines, BeginVerse)
          /\ current_group_type'
               = (IF chord_buffer # <<>> THEN "VERSE_WITH_CHORDS" ELSE "VERSE")
          /\ group_padding' = LeadingBlanks(line')
          /\ Len(group_lines') = 1
          /\ NonSpace(StripMarkup(group_lines'[1], 1)) = NonSpace(line')
          /\ NamesAndSymbols(group_lines'[1])
               = ExpectedCommands(SliceFrom(line', LeadingBlanks(line')),
                                  SliceFrom(chord_buffer, LeadingBlanks(line')),
                                  chord_buffer # <<>>)]_vars

\* C24 witness: an indented PlainText line met a pending chord buffer while no
\* group was open: the Verse group it opened has chords, the padding width of
\* its indentation, and one content line with chord commands.
C24_Witness ==
  /\ pc = "loop" /\ line_type = "TEXT"
  /\ current_group_type = "VERSE_WITH_CHORDS"
  /\ group_padding = 3 /\ Len(group_lines) = 1
  /\ Len(Commands(group_lines[1])) = 2
  /\ output_lines # <<>> /\ output_lines[Len(output_lines)] = BeginVerse

\* the width of the label prefix of a line: the text before its first "." or
\* ":", the separator and one space; 0 when the line holds neither
PrefixWidth(s) ==
  IF Contains(s, ".") \/ Contains(s, ":")
  THEN (Min(Find(s, ".", 1), Find(s, ":", 1)) - 1) + 2
  ELSE 0

\* the first content line `new` of a group is the suffix merged with the
\* chord buffer
MergedSuffix(new, suffix, buffer, withChords) ==
  /\ NonSpace(StripMarkup(new, 1)) = NonSpace(suffix)
  /\ NamesAndSymbols(new) = ExpectedCommands(suffix, buffer, withChords)

\* C25 as stated: a SectionLabel line opens a group whose paddingWidth is the
\* length of the text before the separator plus 2, or 0 without a separator,
\* and the suffix of the label line after that prefix becomes the first
\* content line of the group, merged against the pending chord buffer using
\* the withChords of the group.
C25_AsStated ==
  [][(ContentStep /\ line_type' \in group_start)
       => /\ current_group_type' = line_type'
          /\ group_padding' = PrefixWidth(line')
          /\ Len(group_lines') = 1
          /\ MergedSuffix(group_lines'[1], SliceFrom(line', PrefixWidth(line')),
                          SliceFrom(chord_buffer, PrefixWidth(line')),
                          line_type' \in has_chords)]_vars

\* the content line `new` of a plain Solo group is the suffix cut at every
\* blank, each piece wrapped in \inlinechord{}
SoloSuffix(new, suffix) ==
  LET cs == Commands(new)
  IN  /\ \A k \in 1..Len(cs) :
           cs[k].name = inlinechordName /\ ~HasSpace(cs[k].symbol)
      /\ JoinSpace([k \in 1..Len(cs) |-> cs[k].symbol]) = suffix
      /\ Len(new) = Sum([k \in 1..Len(cs) |-> cs[k].stop - cs[k].start + 1])
                      + (Len(cs) - 1)

\* C25 amended: a SectionLabel line opens a group whose paddingWidth is the
\* length of the text before the separator plus 2, or 0 without a separator,
\* and the suffix of the label line after that prefix becomes the first
\* content line of the group, merged against the pending chord buffer using
\* the withChords of the group; except in a plain Solo group, where the chord
\* buffer is not merged and the suffix, cut at every whitespace character, is
\* emitted as one \inlinechord{piece} per piece.
C25_LabelOpensGroup ==
  [][(ContentStep /\ line_type' \in group_start)
       => /\ current_group_type' = line_type'
          /\ group_padding' = PrefixWidth(line')
          /\ Len(group_lines') = 1
          /\ IF line_type' = "SOLO"
             THEN SoloSuffix(group_lines'[1], SliceFrom(line', PrefixWidth(line')))
             ELSE MergedSuffix(group_lines'[1],
                               SliceFrom(line', PrefixWidth(line')),
                               SliceFrom(chord_buffer, PrefixWidth(line')),
                               line_type' \in has_chords)]_vars

\* C25 witness: a label line with a separator opened a with-chords group
\* while a chord buffer was pending: padding width 3, and the suffix is the
\* first content line, with two mandatory chord commands.
C25_Witness ==
  /\ pc = "loop" /\ line_type \in has_chords /\ current_group_type = line_type
  /\ PrefixWidth(line) = 3 /\ group_padding = 3
  /\ Len(group_lines) = 1
  /\ LET cs == Commands(group_lines[1])
     IN  Len(cs) = 2 /\ \A k \in 1..2 : cs[k].name \in ChordNames(TRUE)

\* C26: the pending chord buffer holds at most one chord line (it changes only
\* by becoming the chord line just processed or by becoming empty) and is
\* consumed by the very next content line: right after a SectionLabel or a
\* PlainText line has been processed the buffer is empty.
C26_BufferConsumed ==
  [][/\ ContentStep => chord_buffer' = <<>>
     /\ chord_buffer' # chord_buffer =>
          \/ chord_buffer' = <<>>
          \/ line_type' = "CHORDS" /\ chord_buffer' = line']_vars

\* C26 witness: a PlainText line has just taken the pending chord buffer: its
\* content line holds chord commands and the buffer is empty.
C26_Witness ==
  /\ pc = "loop" /\ line_type = "TEXT" /\ chord_buffer = <<>>
  /\ Len(group_lines) >= 2
  /\ Commands(group_lines[Len(group_lines)]) # <<>>
  /\ Commands(group_lines[Len(group_lines) - 1]) = <<>>

\* the symbol holds a bare lowercase m: one that ends the symbol or is followed
\* by a character that is no lowercase letter, and is not preceded by i
HasBareM(symbol) ==
  \E i \in 1..Len(symbol) :
    /\ symbol[i] = "m"
    /\ (i = Len(symbol) \/ symbol[i + 1] \notin LowerLetters)
    /\ (i = 1 \/ symbol[i - 1] # "i")

\* C27 as stated: every chord symbol placed in a chord command has been
\* normalized: a bare lowercase m is spelled mi ("Am" -> "Ami", "Am7" ->
\* "Ami7"), so no chord command carries a symbol with a bare m.
C27_AsStated ==
  \A i \in 1..Len(group_lines) :
    \A k \in 1..Len(Commands(group_lines[i])) :
      Commands(group_lines[i])[k].name # inlinechordName =>
        ~HasBareM(Commands(group_lines[i])[k].symbol)

\* C28 as stated: no lyric text is lost when the group padding is stripped:
\* for a PlainText line processed in the group the preceding label line
\* opened, the paddingWidth leading characters removed from the line are all
\* whitespace, so every non-blank character of the line is in its content
\* line.
C28_AsStated ==
  [][(ContentStep /\ line_type \in group_start /\ line_type' = "TEXT")
       => /\ Blank(SubSeq(line', 1, Min(group_padding', Len(line'))))
          /\ IsSubsequence(NonSpace(line'),
                           StripMarkup(group_lines'[Len(group_lines')], 1))]_vars

\* C29: every group has at least one content line between its \begin and its
\* \end marker: an open group always holds a content line, so end_group never
\* runs on an empty list, and in the output no \end marker follows a \begin
\* marker immediately.
C29_GroupsNotEmpty ==
  /\ current_group_type # None => group_lines # <<>>
  /\ \A i \in 1..Len(output_lines) :
       IsEndLine(output_lines[i]) => (i > 1 /\ IsContentLine(output_lines[i - 1]))

\* C29 witness: a group opened by a label line was closed by the Empty line
\* that followed it: its markers enclose the one content line of the label.
C29_Witness ==
  /\ pc = "loop" /\ line_type = "EMPTY" /\ line_no = 2
  /\ Len(output_lines) = 3
  /\ IsBeginLine(output_lines[1])
  /\ IsContentLine(output_lines[2])
  /\ IsEndLine(output_lines[3])

(***************************************************************************)
(* Claims about process_song_list (specification SpecList)                 *)
(***************************************************************************)
\* the songs of a list, by title and in order
Titles(list) == [i \in 1..Len(list) |-> list[i].title]

\* C30 as stated: whatever the choices among Format, Skip, Edit line
\* annotations, Edit formatted lines and Exit, the list written back when the
\* loop ends holds every song of the input list exactly once and in the
\* original order, and after each iteration the processed list followed by the
\* remaining queue equals the original list.
C30_AsStated ==
  l_pc \in {"loop", "written"} =>
    /\ Titles(processed_song_list \o songs) = Titles(loaded)
    /\ l_pc = "written" => Titles(written) = Titles(loaded)

\* C30 amended: the list written back when the loop ends holds every song of
\* the input list exactly once and in the original order; after each iteration
\* that returns to the head of the loop the processed list followed by the
\* remaining queue equals the original list; after the iteration that Exit
\* ends the processed list alone equals the original list, the queue still
\* holding the songs behind the current one; and when process_song raises,
\* nothing is written back.
C30_ListKept ==
  /\ l_pc = "loop" => Titles(processed_song_list \o songs) = Titles(loaded)
  /\ l_pc = "written" =>
       /\ Titles(written) = Titles(loaded)
       /\ written = processed_song_list
       /\ task = Exit =>
            Titles(songs) = SubSeq(Titles(loaded), Len(loaded) - Len(songs) + 1,
                                   Len(loaded))
       /\ task # Exit => songs = <<>>
  /\ l_pc = "raised" => written = None

\* C30 witness: after a song was formatted and saved, Exit on the second of
\* three songs wrote the whole list back while the queue still held the third.
C30_Witness ==
  /\ l_pc = "written" /\ task = Exit
  /\ Len(loaded) = 3 /\ Len(songs) = 1
  /\ Len(written) = 3
  /\ written[1] # loaded[1]
  /\ written[3] = songs[1]

====
